---------------------------- MODULE Spec2Model ----------------------------
(***************************************************************************)
(* Model of the supervision-and-proxy engine of mcp-reverse-proxy:         *)
(* one MCPProcess supervisor (src/lib/process-manager.ts), the children it *)
(* spawns, its pending-request table, the proxy callers                    *)
(* (src/server/proxy.ts) that dispatch JSON-RPC requests to it, and the    *)
(* rate limiter and response cache in front of them                        *)
(* (src/server/middleware/rate-limit.ts, cache.ts).                        *)
(*                                                                         *)
(* The program runs on the Node.js event loop: every action below is one   *)
(* macrotask (an HTTP request, a timer, a child-process event) together    *)
(* with the promise continuations (microtasks) it triggers.                *)
(***************************************************************************)
EXTENDS Integers, FiniteSets, Sequences, TLC

\* ---- bounds of the model -------------------------------------------------
MaxChildren == 2        \* children of the supervisor that exist at a time in Spec
MaxChildrenReq == 1     \* children that exist at a time in SpecReq, SpecReqMore
MaxReq == 1             \* callers of sendRequest in a run of SpecReq
MaxRestartsCfg == 2     \* largest configured process.maxRestarts explored
MaxBackoff == 6         \* process.maxRestarts in SpecBackoff
MaxRateLimit == 3       \* largest proxy.rateLimit in SpecLimit
MaxCacheTTL == 1        \* largest proxy.cacheTTL (seconds) in SpecCacheTtl
MaxOver == 2            \* requests of a window beyond the limit in SpecLimitFull

\* ---- program constants ---------------------------------------------------
InternalError == -32603 \* JSON-RPC code of the proxy's catch-all reply
HttpOk == 200
HttpInternal == 500
HttpBadRequest == 400
HttpUnauthorized == 401
HttpNotFound == 404
InvalidRequest == -32600 \* JSON-RPC code of the reply to an invalid request
InvalidParams == -32602 \* JSON-RPC code of the reply to a schema violation
HttpUnavailable == 503
BaseDelay == 1000       \* ms: the restart delay is BaseDelay * 2^restartCount ...
MaxDelay == 30000       \* ms: ... and at most MaxDelay
DefaultCacheTTL == 300  \* config.proxy.cacheTTL when the definition has none
DefaultLimit == 100     \* the limiter's limit when it is given none
DefaultWindowMs == 60000 \* ms: the limiter's window when it is given none
HttpTooMany == 429
DefaultTtl == 300000    \* ms: the cache's time to live when it is given none

NoChild == 0            \* this.process === undefined
NoReq == 0              \* no callback stored under a key
NoId == 0               \* request without an id (request.id === undefined)
ClientIds == {1}        \* ids the clients choose (two callers may choose the same)
Keys == ClientIds \cup {NoId}
Children == 1..MaxChildren  \* slots for the ChildProcess objects that exist
Lost == MaxChildren + 1     \* stands for a child whose exit was reported
Reqs == 1..(MaxReq + 1)
NoText == 0             \* the caller's request body was not read yet
Shared == MaxReq + 2    \* a request body that several callers send
Texts == Reqs \cup {Shared} \* request bodies: text r is sent by caller r only

VARIABLES
  autoRestart,          \* config.process.autoRestart
  maxRestarts,          \* config.process.maxRestarts
  rateLimit,            \* config.proxy.rateLimit
  cacheTTL,             \* config.proxy.cacheTTL, in seconds
  now,                  \* ms: Date.now()
  store,                \* rate-limit.ts: store, by client key
  served,               \* per client: its requests the limiter passed on in the
                        \* current window of its key
  rl,                   \* the limiter's latest verdict and the headers it set
  envelope,             \* a POST body and what the handler's validation replies
  routed,               \* registered services, a request path and where it goes
  apiKeys,              \* the api_keys table: the state of the record of a hash
  auth,                 \* the management request in progress: its key, whether the
                        \* middleware called next(), the status it replied
  boot,                 \* the loading of the persisted services by main()
  plain,                \* the limiter's store and the cache as they are in the same
                        \* run when no sweep is made
  framer,               \* the child's stdout: bytes to come, bytes read, this.buffer,
                        \* and the events the lines were processed into
  stderr,               \* what became of the bytes the child wrote to stderr
  admin,                \* the services table and ProcessManager.processes as the
                        \* management routes read and write them
  registered,           \* ProcessManager.processes holds the supervisor
  ws,                   \* a WebSocket of /mcp/ws, its listeners and its requests
  status,               \* state.status
  process,              \* this.process: the current child, or NoChild
  restartCount,         \* state.restartCount
  restartTimeout,       \* "pending" iff this.restartTimeout names a timer that has
                        \* not fired (clearing a timer that fired does nothing)
  leaked,               \* pending restart timers whose handle was overwritten
  delay,                \* ms: the delay the last restart timer was set with
                        \* (0: none was set)
  hcHandle,             \* this.healthCheckInterval is set
  hcCount,              \* health-check intervals that are running
  child,                \* per slot: "none" (no child: never spawned, or its exit
                        \* was reported), "alive", "failed" (spawn failed),
                        \* "errored" ('error' delivered, 'exit' to follow),
                        \* "dead" (exit not yet reported)
  killed,               \* unreported children whose ChildProcess.killed flag is set
  sigkilled,            \* unreported children that were sent SIGKILL
  stopWait,             \* per child: the stop()/restart() calls awaiting its exit
  requestCallbacks,     \* this.requestCallbacks: key -> owning call, or NoReq
  rq,                   \* per sendRequest caller: its progress and outcome
  cache,                \* cache.ts: cache, by request body
  emitted               \* child messages emitted on the 'notification' event

supVars == <<status, process, restartCount, restartTimeout, leaked, delay,
             hcHandle, hcCount, child, killed, sigkilled, stopWait>>
cfgVars == <<autoRestart, maxRestarts, rateLimit, cacheTTL>>
reqVars == <<requestCallbacks, rq, emitted, cache>>
limVars == <<store, served, rl>>
\* what the handlers that are followed on their own read and reply
fnVars == <<envelope, routed, apiKeys, auth, boot, framer, stderr, admin>>
vars == <<cfgVars, supVars, reqVars, limVars, fnVars, registered, ws, plain, now>>

\* The supervisor and its children as one record, so that handlers compose.
S == [status |-> status, process |-> process, restartCount |-> restartCount,
      restartTimeout |-> restartTimeout, leaked |-> leaked, delay |-> delay,
      hcHandle |-> hcHandle, hcCount |-> hcCount, child |-> child,
      killed |-> killed, sigkilled |-> sigkilled, stopWait |-> stopWait]

Commit(s) ==
  /\ status' = s.status
  /\ process' = s.process
  /\ restartCount' = s.restartCount
  /\ restartTimeout' = s.restartTimeout
  /\ leaked' = s.leaked
  /\ delay' = s.delay
  /\ hcHandle' = s.hcHandle
  /\ hcCount' = s.hcCount
  /\ child' = s.child
  /\ killed' = s.killed
  /\ sigkilled' = s.sigkilled
  /\ stopWait' = s.stopWait

\* ---- MCPProcess: lifecycle ------------------------------------------------

\* Outcomes of child_process.spawn: the child runs ("ok"), the spawn fails
\* and an 'error' event follows ("fail"), or spawn throws synchronously.
SpawnOutcomes == {"ok", "fail", "throw"}

startHealthCheck(s) ==
  [s EXCEPT !.hcCount = @ + 1, !.hcHandle = TRUE]

stopHealthCheck(s) ==
  IF s.hcHandle THEN [s EXCEPT !.hcCount = @ - 1, !.hcHandle = FALSE] ELSE s

\* start() spawns unless the status is running.
Spawns(s) == s.status # "running"

\* The slots, among the first cap, that hold no child and that no stop() awaits.
Free(s, cap) == {c \in 1..cap : s.child[c] = "none" /\ s.stopWait[c] = {}}

\* The new ChildProcess object takes the first free slot.
start(s, o, cap) ==
  IF s.status = "running" THEN s
  ELSE IF o = "throw" THEN [s EXCEPT !.status = "crashed"]
  ELSE LET c == CHOOSE c \in Free(s, cap) : \A d \in Free(s, cap) : c <= d
       IN startHealthCheck(
            [s EXCEPT !.process = c,
                      !.child[c] = IF o = "ok" THEN "alive" ELSE "failed",
                      !.status = "running"])

Min(a, b) == IF a <= b THEN a ELSE b

\* handleProcessExit restarting once more at the cap (<= for <).
handleProcessExit_atCap(s) ==
  LET s1 == [stopHealthCheck(s) EXCEPT !.process = NoChild]
  IN IF s1.status = "stopped" THEN s1
     ELSE IF autoRestart /\ s1.restartCount <= maxRestarts
     THEN [s1 EXCEPT !.restartCount = @ + 1,
                     !.status = "restarting",
                     !.delay = Min(BaseDelay * 2^(s1.restartCount + 1), MaxDelay),
                     !.leaked = IF s1.restartTimeout = "pending" THEN @ + 1 ELSE @,
                     !.restartTimeout = "pending"]
     ELSE [s1 EXCEPT !.status = "crashed"]

\* handleProcessExit setting the timer without the 30 s ceiling.
handleProcessExit_noCeiling(s) ==
  LET s1 == [stopHealthCheck(s) EXCEPT !.process = NoChild]
  IN IF s1.status = "stopped" THEN s1
     ELSE IF autoRestart /\ s1.restartCount < maxRestarts
     THEN [s1 EXCEPT !.restartCount = @ + 1,
                     !.status = "restarting",
                     !.delay = BaseDelay * 2^(s1.restartCount + 1),
                     !.leaked = IF s1.restartTimeout = "pending" THEN @ + 1 ELSE @,
                     !.restartTimeout = "pending"]
     ELSE [s1 EXCEPT !.status = "crashed"]

\* The counter is incremented before the delay is computed from it.
handleProcessExit(s) ==
  LET s1 == [stopHealthCheck(s) EXCEPT !.process = NoChild]
  IN IF s1.status = "stopped" THEN s1
     ELSE IF autoRestart /\ s1.restartCount < maxRestarts
     THEN [s1 EXCEPT !.restartCount = @ + 1,
                     !.status = "restarting",
                     !.delay = Min(BaseDelay * 2^(s1.restartCount + 1), MaxDelay),
                     !.leaked = IF s1.restartTimeout = "pending" THEN @ + 1 ELSE @,
                     !.restartTimeout = "pending"]
     ELSE [s1 EXCEPT !.status = "crashed"]

\* ChildProcess.kill(signal): the signal is sent, and killed is set, when the
\* child has a process handle (it was spawned and its exit was not reported).
kill(s, c, sig) ==
  IF s.child[c] \in {"alive", "dead"}
  THEN [s EXCEPT !.killed = @ \cup {c},
                 !.sigkilled = IF sig = "SIGKILL" THEN @ \cup {c} ELSE @]
  ELSE s

\* stop() awaits the child's exit when it passes the guard and has a child.
StopAwaits(s) == s.status # "stopped" /\ s.process # NoChild

\* stop() up to its await (or up to its return when it does not await).
stopBegin(s, kind) ==
  IF s.status = "stopped" THEN s
  ELSE LET s1 == stopHealthCheck(s)
           s2 == IF s1.restartTimeout # "none"
                 THEN [s1 EXCEPT !.restartTimeout = "none"] ELSE s1
       IN IF s2.process # NoChild
          THEN LET s3 == kill([s2 EXCEPT !.status = "stopped"], s2.process, "SIGTERM")
               IN [s3 EXCEPT !.stopWait[s2.process] = @ \cup {kind}]
          ELSE s2

\* stop() after its await: the calls awaiting child c resume.
stopResume(s, kinds) ==
  IF kinds = {} THEN s ELSE [s EXCEPT !.process = NoChild]

\* ---- MCPProcess: requests ---------------------------------------------------

\* A caller that has not issued its request yet.
NewCall == [st |-> "idle", body |-> NoText, id |-> NoId, to |-> NoChild,
            replied |-> FALSE, out |-> "none", of |-> NoReq]

\* The state of the request side, so that handlers compose.
Q == [cb |-> requestCallbacks, rq |-> rq, emitted |-> emitted, cache |-> cache]

CommitQ(q) ==
  /\ requestCallbacks' = q.cb
  /\ rq' = q.rq
  /\ emitted' = q.emitted
  /\ cache' = q.cache

\* sendRequest(request) called by caller r with request.id = id.
sendRequest(q, r, id) ==
  IF status # "running" \/ process = NoChild
  THEN [q EXCEPT !.rq[r] = [@ EXCEPT !.st = "done", !.out = "illegalState"]]
  ELSE [q EXCEPT !.cb[id] = r,
                 !.rq[r] = [@ EXCEPT !.st = "pending", !.id = id,
                                     !.to = process]]

\* The timeout callback rejecting without deleting the pending entry.
sendRequestTimeout_keepsEntry(q, r) ==
  [q EXCEPT !.rq[r] = [@ EXCEPT !.st = "done", !.out = "timeout"]]

\* The timeout callback deleting the pending entry without rejecting.
sendRequestTimeout_noReject(q, r) ==
  [q EXCEPT !.cb[q.rq[r].id] = NoReq]

\* The timeout callback of caller r's sendRequest.
sendRequestTimeout(q, r) ==
  [q EXCEPT !.cb[q.rq[r].id] = NoReq,
            !.rq[r] = [@ EXCEPT !.st = "done", !.out = "timeout"]]

\* A response of the child to caller r's request that carries an error field
\* where the response r carries a result, and the test for that field.
errorResponse(r) == 0 - r

hasError(m) == m < 0

\* handleStdout for one line: a message with id k whose content is the
\* child's answer to the request of caller m.
handleStdout(q, k, m) ==
  IF k # NoId /\ q.cb[k] # NoReq
  THEN LET o == q.cb[k]
       IN [q EXCEPT !.cb[k] = NoReq,
                    !.rq[o] = [@ EXCEPT !.st = "done", !.out = "response",
                                        !.of = m]]
  ELSE [q EXCEPT !.emitted = @ \cup {m}]

\* ---- proxy.ts: what the POST handler replies ---------------------------------

\* HTTP status of the reply, by the outcome of the handler's request.
PostStatus(out) ==
  CASE out \in {"response", "hit"} -> HttpOk
    [] out = "unavailable" -> HttpUnavailable
    [] out = "notFound" -> HttpNotFound
    [] OTHER -> HttpInternal

\* JSON-RPC error code the handler puts in a reply of its own (0: none).
PostErrorCode(out) ==
  IF out \in {"timeout", "illegalState"} THEN InternalError ELSE 0

\* The handler up to the await of the request body: the status check.
postHandler(q, r) ==
  IF ~registered
  THEN [q EXCEPT !.rq[r] = [@ EXCEPT !.st = "done", !.out = "notFound"]]
  ELSE IF status # "running"
  THEN [q EXCEPT !.rq[r] = [@ EXCEPT !.st = "done", !.out = "unavailable"]]
  ELSE [q EXCEPT !.rq[r] = [@ EXCEPT !.st = "checked"]]

\* ---- middleware/cache.ts ---------------------------------------------------------

\* cache.get(cacheKey) === undefined (the data of an entry is a response)
NoCached == [data |-> NoReq, expiry |-> 0]

\* The options createProxyRouter gives the cache: none (0: undefined).
CacheOptions == [ttl |-> 0]

ttl == IF CacheOptions.ttl # 0 THEN CacheOptions.ttl ELSE DefaultTtl

\* A JSON text: the value it denotes (the child's answer to the request of
\* caller "of"), and whether it is written as JSON.stringify writes it.
Forms == {"stringified", "other"}

\* JSON.parse, c.res.json()
parse(text) == text.of

\* JSON.stringify, c.json(value)
stringify(value) == [of |-> value, form |-> "stringified"]

\* The X-Cache header of the reply.
XCache(out) ==
  CASE out = "hit" -> "HIT"
    [] out = "response" -> "MISS"
    [] OTHER -> "none"

\* The body of the reply with status 200.
PostBody(c) == stringify(c.of)

\* The cache middleware never answering from the cache.
cacheMiddleware_noHit(q, r, b, t) ==
  postHandler([q EXCEPT !.rq[r].body = b], r)

\* The cache middleware before next(), on the request of caller r whose body
\* is b, at time t: a hit is answered, a miss goes on to the handler.
cacheMiddleware(q, r, b, t) ==
  IF q.cache[b] # NoCached /\ q.cache[b].expiry > t
  THEN [q EXCEPT !.rq[r] = [@ EXCEPT !.st = "done", !.out = "hit", !.body = b,
                                     !.of = q.cache[b].data]]
  ELSE postHandler([q EXCEPT !.rq[r].body = b], r)

\* The cache middleware after next(): the reply of caller r is stored when
\* its status is 200.
cacheSet(q, r, t) ==
  IF q.rq[r].st = "done" /\ PostStatus(q.rq[r].out) = HttpOk
  THEN [q EXCEPT !.cache[q.rq[r].body] =
                   [data |-> parse(PostBody(q.rq[r])), expiry |-> t + ttl]]
  ELSE q

\* The sweep of the cache: the entries that expired are deleted.
sweepCache(ca, t) ==
  [b \in Texts |->
     IF ca[b] # NoCached /\ ca[b].expiry < t THEN NoCached ELSE ca[b]]

\* ---- middleware/rate-limit.ts ----------------------------------------------------

\* A request header that is absent (or empty: both are falsy).
NoHeader == ""

\* The clients: their x-forwarded-for and x-real-ip headers, and the remote
\* address of their connection.
Clients ==
  { [xff |-> "a", xri |-> "b", addr |-> "p"],
    [xff |-> NoHeader, xri |-> "b", addr |-> "p"],
    [xff |-> NoHeader, xri |-> NoHeader, addr |-> "c"],
    [xff |-> NoHeader, xri |-> NoHeader, addr |-> "d"] }

NoClient == [xff |-> NoHeader, xri |-> NoHeader, addr |-> NoHeader]

clientIp(cl) ==
  IF cl.xff # NoHeader THEN cl.xff
  ELSE IF cl.xri # NoHeader THEN cl.xri
  ELSE "unknown"

\* The keys of the store (there is one service).
StoreKeys == {clientIp(cl) : cl \in Clients}

\* store[key] === undefined (an entry that exists has count >= 1)
NoEntry == [count |-> 0, resetTime |-> 0]

\* No request has passed through the limiter yet.
NoVerdict == [client |-> NoClient, status |-> 0, limit |-> 0, remaining |-> 0,
              retryAfter |-> 0, reset |-> 0]

\* The options createProxyRouter gives the limiter: none (0: undefined).
RateOptions == [limit |-> 0, windowMs |-> 0]

limit == IF RateOptions.limit # 0 THEN RateOptions.limit ELSE DefaultLimit

windowMs == IF RateOptions.windowMs # 0 THEN RateOptions.windowMs ELSE DefaultWindowMs

\* Math.ceil(x / d)
Ceil(x, d) == IF x % d = 0 THEN x \div d ELSE (x \div d) + 1

\* The state of the limiter, so that handlers compose.
L == [store |-> store, served |-> served, rl |-> rl]

CommitL(l) ==
  /\ store' = l.store
  /\ served' = l.served
  /\ rl' = l.rl

\* The limiter on a request of client cl at time t. status 0 stands for
\* next(): the request goes on, with the headers set.
rateLimitMiddleware(l, cl, t) ==
  LET key == clientIp(cl)
      opens == l.store[key] = NoEntry \/ l.store[key].resetTime < t
      e0 == IF opens THEN [count |-> 0, resetTime |-> t + windowMs]
            ELSE l.store[key]
      e1 == [e0 EXCEPT !.count = @ + 1]
      sv == IF opens
            THEN [c \in Clients |-> IF clientIp(c) = key THEN 0 ELSE l.served[c]]
            ELSE l.served
  IN IF e1.count > limit
     THEN [store |-> [l.store EXCEPT ![key] = e1],
           served |-> sv,
           rl |-> [client |-> cl, status |-> HttpTooMany, limit |-> limit,
                   remaining |-> 0,
                   retryAfter |-> Ceil(e1.resetTime - t, 1000),
                   reset |-> e1.resetTime]]
     ELSE [store |-> [l.store EXCEPT ![key] = e1],
           served |-> [sv EXCEPT ![cl] = @ + 1],
           rl |-> [client |-> cl, status |-> 0, limit |-> limit,
                   remaining |-> limit - e1.count,
                   retryAfter |-> 0,
                   reset |-> e1.resetTime]]

\* The sweep deleting the entries whose window ends at the time of the sweep
\* as well.
sweepStore_atEnd(st, t) ==
  [k \in StoreKeys |->
     IF st[k] # NoEntry /\ st[k].resetTime <= t THEN NoEntry ELSE st[k]]

\* The sweep of the store: the entries whose window is over are deleted.
sweepStore(st, t) ==
  [k \in StoreKeys |->
     IF st[k] # NoEntry /\ st[k].resetTime < t THEN NoEntry ELSE st[k]]

\* ---- MCPProcess: framing of the child's stdout -----------------------------------

MaxBytes == 5           \* bytes of ASCII text the children write to stdout
MaxUtf == 4             \* bytes of UTF-8 text the children write to stdout
\* Bytes of the child's output: "m" is the text of a JSON-RPC message, "n" the
\* newline, "L" and "C" the two bytes of one character that is not ASCII.
Ascii == {"m", " ", "n"}
Bytes == Ascii \cup {"L", "C"}
NoOutput == [rest |-> <<>>, read |-> <<>>, buffer |-> <<>>, events |-> <<>>]

\* data.toString(): the characters of a chunk; "e" is the character of the
\* bytes L C, "?" the replacement character of a byte that forms none.
RECURSIVE toString(_)
toString(data) ==
  IF data = <<>> THEN <<>>
  ELSE IF data[1] = "L" /\ Len(data) >= 2 /\ data[2] = "C"
  THEN <<"e">> \o toString(SubSeq(data, 3, Len(data)))
  ELSE IF data[1] \in {"L", "C"}
  THEN <<"?">> \o toString(Tail(data))
  ELSE <<data[1]>> \o toString(Tail(data))

\* str.split('\n')
RECURSIVE split(_)
split(str) ==
  IF \A i \in 1..Len(str) : str[i] # "n" THEN <<str>>
  ELSE LET i == CHOOSE j \in 1..Len(str) :
                  str[j] = "n" /\ \A k \in 1..(j - 1) : str[k] # "n"
       IN <<SubSeq(str, 1, i - 1)>> \o split(SubSeq(str, i + 1, Len(str)))

\* line.trim() is empty
blank(line) == \A i \in 1..Len(line) : line[i] = " "

\* parseJSONRPCMessage(line): the line is a message, or the call throws
parseJSONRPCMessage(line) ==
  IF SelectSeq(line, LAMBDA ch : ch # " ") = <<"m">> THEN "message" ELSE "throws"

\* The loop of handleStdout where a blank line is not skipped.
RECURSIVE emits_noSkip(_)
emits_noSkip(lines) ==
  IF lines = <<>> THEN <<>>
  ELSE IF parseJSONRPCMessage(lines[1]) = "message"
  THEN <<[event |-> "notification", line |-> lines[1]]>> \o emits_noSkip(Tail(lines))
  ELSE <<[event |-> "log", line |-> lines[1]]>> \o emits_noSkip(Tail(lines))

\* The loop of handleStdout over the lines: the events emitted. The message
\* of the child's output carries no id of a pending request.
RECURSIVE emits(_)
emits(lines) ==
  IF lines = <<>> THEN <<>>
  ELSE IF blank(lines[1]) THEN emits(Tail(lines))
  ELSE IF parseJSONRPCMessage(lines[1]) = "message"
  THEN <<[event |-> "notification", line |-> lines[1]]>> \o emits(Tail(lines))
  ELSE <<[event |-> "log", line |-> lines[1]]>> \o emits(Tail(lines))

\* handleStdout(data) on this.buffer: the buffer left and the events emitted.
handleStdoutData(f, data) ==
  LET lines == split(f.buffer \o toString(data))
  IN [f EXCEPT !.buffer = lines[Len(lines)],
               !.events = @ \o emits(SubSeq(lines, 1, Len(lines) - 1))]

\* ---- proxy.ts: the WebSocket proxy ----------------------------------------------

\* No client has connected: state is the socket's state, subscribed tells
\* that its two listeners are on the supervisor, owns holds the callers whose
\* request came in a message of the socket.
NoSocket == [state |-> "none", subscribed |-> FALSE, owns |-> {}]

\* The 'connection' listener, for ?service= the id of the supervisor.
connection(w) ==
  IF ~registered \/ status # "running"
  THEN [w EXCEPT !.state = "closed"]
  ELSE [w EXCEPT !.state = "open", !.subscribed = TRUE]

\* The 'close' listener of the socket.
wsClose(w) == [w EXCEPT !.state = "closed", !.subscribed = FALSE]

\* Nothing was written to stderr: logged tells that logger.error was called
\* with the text, frame that a socket was sent the text, uncaught that
\* emit('error') threw out of the 'data' listener.
NoStderr == [logged |-> FALSE, frame |-> FALSE, uncaught |-> FALSE]

\* handleStderr(data): the text is logged and emitted as an 'error' event.
\* The socket's errorHandler, when it is on the supervisor, sends the text
\* to the client; an EventEmitter without a listener of 'error' throws.
handleStderr(e, w) ==
  [e EXCEPT !.logged = TRUE,
            !.frame = @ \/ w.subscribed,
            !.uncaught = @ \/ ~w.subscribed]

\* ---- middleware/auth.ts -----------------------------------------------------------

NoKey == ""             \* neither x-api-key nor api_key is given
Secrets == {"k1", "k2", "k3"}
\* what a request may present: nothing, a secret, the stored hash of a secret
Presented == Secrets \cup {NoKey, "h1"}
\* crypto.createHash('sha256').update(apiKey).digest('hex')
sha256(k) ==
  CASE k = "k1" -> "h1"
    [] k = "k2" -> "h2"
    [] k = "k3" -> "h3"
    [] OTHER -> "hh"
Hashes == {sha256(k) : k \in Presented \ {NoKey}}
NoAuth == [key |-> NoKey, next |-> FALSE, status |-> 0]

\* The middleware without the test of keyRecord.active.
authMiddleware_noActiveTest(keys, k) ==
  IF k = NoKey \/ keys[sha256(k)] = "none"
  THEN [key |-> k, next |-> FALSE, status |-> HttpUnauthorized]
  ELSE [key |-> k, next |-> TRUE, status |-> 0]

\* authMiddleware() on a request presenting k: 401, or next().
authMiddleware(keys, k) ==
  IF k = NoKey
  THEN [key |-> k, next |-> FALSE, status |-> HttpUnauthorized]
  ELSE IF keys[sha256(k)] = "none"
  THEN [key |-> k, next |-> FALSE, status |-> HttpUnauthorized]
  ELSE IF keys[sha256(k)] # "active"
  THEN [key |-> k, next |-> FALSE, status |-> HttpUnauthorized]
  ELSE [key |-> k, next |-> TRUE, status |-> 0]

\* ---- index.ts: loading the persisted services ------------------------------------

MaxServices == 3        \* rows of the services table
\* a row: its persisted status, and whether start() of its supervisor throws
Rows == [status : {"running", "stopped", "crashed"}, fails : BOOLEAN]
NoBoot == [rows |-> <<>>, i |-> 1, constructed |-> {}, started |-> {},
           logged |-> {}, aborted |-> FALSE]

\* One pass of the loop where a failing start() is not caught.
bootStep_noCatch(b) ==
  LET row == b.rows[b.i]
      b1 == [b EXCEPT !.constructed = @ \cup {b.i}]
  IN IF row.status = "running"
     THEN IF row.fails
          THEN [b1 EXCEPT !.started = @ \cup {b.i}, !.aborted = TRUE]
          ELSE [b1 EXCEPT !.started = @ \cup {b.i}, !.i = @ + 1]
     ELSE [b1 EXCEPT !.i = @ + 1]

\* One pass of the loop of main() over dbServices: addProcess(config), and
\* start().catch(log) when the persisted status is running.
bootStep(b) ==
  LET row == b.rows[b.i]
      b1 == [b EXCEPT !.constructed = @ \cup {b.i}, !.i = @ + 1]
  IN IF row.status = "running"
     THEN [b1 EXCEPT !.started = @ \cup {b.i},
                     !.logged = IF row.fails THEN @ \cup {b.i} ELSE @]
     ELSE b1

\* ---- the management API: /services ---------------------------------------------

HttpCreated == 201
\* the ids the create route generates, in the order it generates them
AdminIds == 1..MaxServices
AdminPaths == {"/a", "/b"}
\* definitions of a service: its timeout, autoRestart, maxRestarts,
\* environment and entry point
Definitions == {"d1", "d2"}
NoRow == [path |-> "none", def |-> "none", status |-> "none"]
NoProc == [config |-> "none", status |-> "none"]
\* The services table is empty and ProcessManager.processes too; made counts
\* the ids generated, reply is the status of the last reply.
NoAdmin == [rows |-> [i \in AdminIds |-> NoRow],
            processes |-> [i \in AdminIds |-> NoProc],
            made |-> 0, reply |-> 0]

\* bodies of POST /services: valid tells that CreateServiceSchema accepts
\* it, fails that spawn throws in start()
CreateBodies ==
  [valid : BOOLEAN, path : AdminPaths, def : Definitions, autoStart : BOOLEAN,
   fails : BOOLEAN]
\* bodies of PUT /services/:id: "none" for a member that is not given
UpdateBodies ==
  [valid : BOOLEAN, path : AdminPaths \cup {"none"},
   def : Definitions \cup {"none"}, fails : BOOLEAN]

\* The unique index on proxy_path rejects the path for row i.
pathTaken(a, i, path) ==
  \E j \in AdminIds \ {i} : a.rows[j] # NoRow /\ a.rows[j].path = path

\* MCPProcess.start(): nothing when running; crashed when spawn throws.
procStart(pr, fails) ==
  IF pr.status = "running" THEN pr
  ELSE IF fails THEN [pr EXCEPT !.status = "crashed"]
  ELSE [pr EXCEPT !.status = "running"]

\* MCPProcess.stop(), completed: a supervisor that has a child is stopped.
procStop(pr) ==
  IF pr.status = "running" THEN [pr EXCEPT !.status = "stopped"] ELSE pr

\* start() of pr throws.
startThrows(pr, fails) == pr.status # "running" /\ fails

\* POST /services: the row is inserted, the supervisor constructed from the
\* body and added, and started when autoStart is given.
createService(a, b) ==
  LET id == a.made + 1
      a1 == [a EXCEPT !.made = id]
      a2 == [a1 EXCEPT !.rows[id] = [path |-> b.path, def |-> b.def,
                                     status |-> "stopped"],
                       !.processes[id] = [config |-> b.def,
                                          status |-> "stopped"]]
  IN IF ~b.valid THEN [a EXCEPT !.reply = HttpBadRequest]
     ELSE IF pathTaken(a, id, b.path) THEN [a1 EXCEPT !.reply = HttpInternal]
     ELSE IF ~b.autoStart THEN [a2 EXCEPT !.reply = HttpCreated]
     ELSE [a2 EXCEPT !.processes[id] = procStart(@, b.fails),
                     !.reply = IF startThrows(a2.processes[id], b.fails)
                               THEN HttpInternal ELSE HttpCreated]

\* PUT /services/:id: the members given are written to the row, and the
\* supervisor of the service is restarted.
updateService(a, i, b) ==
  LET row == a.rows[i]
      a1 == [a EXCEPT !.rows[i] =
               [row EXCEPT !.path = IF b.path = "none" THEN @ ELSE b.path,
                           !.def = IF b.def = "none" THEN @ ELSE b.def]]
      pr == procStop(a.processes[i])
  IN IF ~b.valid THEN [a EXCEPT !.reply = HttpBadRequest]
     ELSE IF row = NoRow THEN [a EXCEPT !.reply = HttpNotFound]
     ELSE IF b.path # "none" /\ pathTaken(a, i, b.path)
     THEN [a EXCEPT !.reply = HttpInternal]
     ELSE IF a.processes[i] = NoProc THEN [a1 EXCEPT !.reply = HttpOk]
     ELSE [a1 EXCEPT !.processes[i] = procStart(pr, b.fails),
                     !.reply = IF startThrows(pr, b.fails)
                               THEN HttpInternal ELSE HttpOk]

\* DELETE /services/:id: removeProcess(id), then the row is deleted.
deleteService(a, i) ==
  IF a.rows[i] = NoRow THEN [a EXCEPT !.reply = HttpNotFound]
  ELSE [a EXCEPT !.processes[i] = NoProc, !.rows[i] = NoRow,
                 !.reply = HttpOk]

\* POST /services/:id/start: start(), then status running is persisted.
startService(a, i, fails) ==
  IF a.processes[i] = NoProc THEN [a EXCEPT !.reply = HttpNotFound]
  ELSE IF startThrows(a.processes[i], fails)
  THEN [a EXCEPT !.processes[i] = procStart(@, fails),
                 !.reply = HttpInternal]
  ELSE [a EXCEPT !.processes[i] = procStart(@, fails),
                 !.rows[i].status = "running", !.reply = HttpOk]

\* POST /services/:id/stop: stop(), then status stopped is persisted.
stopService(a, i) ==
  IF a.processes[i] = NoProc THEN [a EXCEPT !.reply = HttpNotFound]
  ELSE [a EXCEPT !.processes[i] = procStop(@),
                 !.rows[i].status = "stopped", !.reply = HttpOk]

\* ---- proxy.ts: validation of the POST body ------------------------------------

\* JSON values a member of the body may have; undefined: the member is absent.
Undefined == [t |-> "undefined", v |-> ""]

JsonValues ==
  [t : {"string"}, v : {"2.0", "", "ping"}]
    \cup {[t |-> "number", v |-> "1"], [t |-> "null", v |-> ""], Undefined}

Bodies == [jsonrpc : JsonValues, method : JsonValues, id : JsonValues]

NoBody == [jsonrpc |-> Undefined, method |-> Undefined, id |-> Undefined]

\* no reply yet
NoReply == [status |-> 0, code |-> 0, sent |-> FALSE]

\* RequestSchema.parse(body) does not throw.
RequestSchema(body) ==
  /\ body.jsonrpc = [t |-> "string", v |-> "2.0"]
  /\ body.method.t = "string"
  /\ body.id.t \in {"string", "number", "undefined"}

\* The type of the object the JSON-RPC library parses from the text of a
\* validated request: invalid when the method is empty.
parseJSONRPCRequest(text) ==
  LET obj == parse(text)
  IN IF obj.method.t # "string" \/ obj.method.v = "" THEN "invalid"
     ELSE IF obj.id = Undefined THEN "notification"
     ELSE "request"

\* The try block of the POST handler up to sendRequest, and its catch: the
\* reply, or sent when the request is handed to sendRequest.
validate(body) ==
  IF ~RequestSchema(body)
  THEN [status |-> HttpBadRequest, code |-> InvalidParams, sent |-> FALSE]
  ELSE IF parseJSONRPCRequest(stringify(body)) = "invalid"
  THEN [status |-> HttpBadRequest, code |-> InvalidRequest, sent |-> FALSE]
  ELSE [status |-> 0, code |-> 0, sent |-> TRUE]

\* ---- proxy.ts: the route of a POST --------------------------------------------

MaxPath == 3            \* segments of the longest request path
ServiceIds == {"a", "b"}
Segments == ServiceIds \cup {"mcp"}
Paths == UNION {[1..n -> Segments] : n \in 0..MaxPath}
NoPath == <<>>          \* the id names no registered service
\* proxy.path of the definitions
ProxyPaths == {<<"mcp", "a">>, <<"mcp", "b">>, <<"mcp">>, <<"a">>, <<"a", "b">>}
\* the registered services: proxy.path by id, no path twice (schema.ts: unique)
Registries ==
  {s \in [ServiceIds -> ProxyPaths \cup {NoPath}] :
     \A i, j \in ServiceIds : (i # j /\ s[i] # NoPath) => s[i] # s[j]}
NoService == ""         \* the request is not dispatched yet
NotFound == "404"

\* The route '/mcp/:serviceId/*': the serviceId parameter of a path it
\* matches.
serviceId(path) ==
  IF Len(path) >= 2 /\ path[1] = "mcp" THEN path[2] ELSE NoService

\* processManager.getProcess(id) where the services s are registered
getProcess(s, id) ==
  IF id \in DOMAIN s /\ s[id] # NoPath THEN id ELSE NoService

\* The service the POST handler sends a request with this path to.
dispatch(s, path) ==
  IF getProcess(s, serviceId(path)) = NoService THEN NotFound
  ELSE getProcess(s, serviceId(path))

\* A supervisor as constructed, and no request made yet.
FreshService ==
  /\ now = 0
  /\ plain = [store |-> [k \in StoreKeys |-> NoEntry],
              served |-> [cl \in Clients |-> 0],
              cache |-> [b \in Texts |-> NoCached]]
  /\ registered = TRUE
  /\ ws = NoSocket
  /\ stderr = NoStderr
  /\ admin = NoAdmin
  /\ store = [k \in StoreKeys |-> NoEntry]
  /\ served = [cl \in Clients |-> 0]
  /\ rl = NoVerdict
  /\ status = "stopped"
  /\ process = NoChild
  /\ restartCount = 0
  /\ restartTimeout = "none"
  /\ leaked = 0
  /\ delay = 0
  /\ hcHandle = FALSE
  /\ hcCount = 0
  /\ child = [c \in Children |-> "none"]
  /\ killed = {}
  /\ sigkilled = {}
  /\ stopWait = [c \in Children |-> {}]
  /\ requestCallbacks = [k \in Keys |-> NoReq]
  /\ rq = [r \in Reqs |-> NewCall]
  /\ emitted = {}
  /\ cache = [b \in Texts |-> NoCached]

\* No POST body was validated, no path routed, no management request made
\* and no key issued, no boot made.
FreshEnvelope == envelope = [body |-> NoBody, reply |-> NoReply]

FreshRoute ==
  routed = [services |-> [i \in ServiceIds |-> NoPath], path |-> <<>>,
            to |-> NoService]

FreshAuth ==
  /\ apiKeys = [h \in Hashes |-> "none"]
  /\ auth = NoAuth

FreshBoot == boot = NoBoot

FreshFramer == framer = NoOutput

\* ... and no handler that is followed on its own has run.
Fresh ==
  /\ FreshService
  /\ FreshEnvelope
  /\ FreshRoute
  /\ FreshAuth
  /\ FreshBoot
  /\ FreshFramer

Init ==
  /\ autoRestart \in BOOLEAN
  /\ maxRestarts \in 0..MaxRestartsCfg
  /\ autoRestart \/ maxRestarts = 0   \* maxRestarts is not read without autoRestart
  /\ rateLimit = DefaultLimit
  /\ cacheTTL = DefaultCacheTTL
  /\ Fresh

\* ---- external commands (management API) ---------------------------------------
\* cap bounds the number of children that exist at a time.

\* POST /api/services/:id/start
Start(cap) ==
  /\ registered
  /\ Spawns(S)
  /\ Free(S, cap) # {}
  /\ \E o \in SpawnOutcomes : Commit(start(S, o, cap))
  /\ UNCHANGED <<cfgVars, fnVars, plain, ws, registered, limVars, now, reqVars>>

\* POST /api/services/:id/stop, up to the await inside stop()
Stop ==
  /\ registered
  /\ status # "stopped"
  /\ process # NoChild => "stop" \notin stopWait[process]
  /\ Commit(stopBegin(S, "stop"))
  /\ UNCHANGED <<cfgVars, fnVars, plain, ws, registered, limVars, now, reqVars>>

\* POST /api/services/:id/restart: stop(), then start() once stop() returned
Restart(cap) ==
  /\ registered
  /\ process # NoChild => "restart" \notin stopWait[process]
  /\ LET s1 == stopBegin(S, "restart")
     IN IF StopAwaits(S)
        THEN Commit(s1)
        ELSE /\ Spawns(s1) => Free(s1, cap) # {}
             /\ \E o \in SpawnOutcomes : Commit(start(s1, o, cap))
  /\ UNCHANGED <<cfgVars, fnVars, plain, ws, registered, limVars, now, reqVars>>

\* DELETE /api/services/:id: removeProcess(id) up to the await inside stop(),
\* or up to processes.delete(id) when stop() does not await.
Remove ==
  /\ registered
  /\ Commit(stopBegin(S, "remove"))
  /\ registered' = IF StopAwaits(S) THEN registered ELSE FALSE
  /\ UNCHANGED <<cfgVars, fnVars, plain, ws, limVars, now, reqVars>>

\* ---- events of the children and timers ------------------------------------------

\* The child terminates (on its own, or by a signal); its exit is not yet reported.
ChildDie(c) ==
  /\ child[c] = "alive"
  /\ child' = [child EXCEPT ![c] = "dead"]
  /\ UNCHANGED <<cfgVars, fnVars, plain, ws, registered, limVars, now, reqVars, status, process, restartCount,
                 restartTimeout, leaked, delay, hcHandle, hcCount, killed,
                 sigkilled, stopWait>>

\* The stop() calls (of the given kinds) awaiting child c return.
awaited(s, c, kinds) ==
  stopResume([s EXCEPT !.stopWait[c] = @ \ kinds], kinds)

\* ... and a restart() among them goes on to start().
resume(s, c, kinds, o, cap) ==
  IF "restart" \in kinds
  THEN start(awaited(s, c, kinds), o, cap)
  ELSE awaited(s, c, kinds)

\* ... and a removeProcess() among them goes on to processes.delete(id).
removeResume(reg, kinds) == IF "remove" \in kinds THEN FALSE ELSE reg

ResumeSpawns(s, c, kinds) ==
  "restart" \in kinds /\ Spawns(awaited(s, c, kinds))

\* The exit of child c is reported: its ChildProcess object is not used again.
reported(s, c) ==
  [s EXCEPT !.child[c] = "none", !.killed = @ \ {c}, !.sigkilled = @ \ {c}]

\* The requests written to child c were written to a child that is gone.
lost(c) ==
  [r \in Reqs |-> IF rq[r].to = c THEN [rq[r] EXCEPT !.to = Lost] ELSE rq[r]]

\* 'exit' event of child c: the listener of start(), then the once-listener of stop().
ChildExit(c, cap) ==
  /\ child[c] \in {"dead", "errored"}
  /\ LET s1 == handleProcessExit(reported(S, c))
         kinds == stopWait[c]
     IN /\ ResumeSpawns(s1, c, kinds) => Free(awaited(s1, c, kinds), cap) # {}
        /\ \E o \in SpawnOutcomes : Commit(resume(s1, c, kinds, o, cap))
        /\ registered' = removeResume(registered, kinds)
  /\ rq' = lost(c)
  /\ UNCHANGED <<cfgVars, fnVars, plain, ws, limVars, now, requestCallbacks, emitted, cache>>

\* 'error' event of child c (the spawn failed); an 'exit' event may or may
\* not follow it.
ChildError(c) ==
  /\ child[c] = "failed"
  /\ \E follows \in BOOLEAN :
       /\ Commit(handleProcessExit(
            [S EXCEPT !.child[c] = IF follows THEN "errored" ELSE "none"]))
       /\ rq' = IF follows THEN rq ELSE lost(c)
  /\ UNCHANGED <<cfgVars, fnVars, plain, ws, registered, limVars, now, requestCallbacks, emitted, cache>>

\* A tick of the health-check interval on which process.kill(pid, 0) throws:
\* the liveness check reports the death before the exit event is delivered.
\* (A tick on which it does not throw changes nothing.)
HealthProbe ==
  /\ hcCount > 0
  /\ process # NoChild
  /\ child[process] = "dead"
  /\ Commit(handleProcessExit(S))
  /\ UNCHANGED <<cfgVars, fnVars, plain, ws, registered, limVars, now, reqVars>>

\* A restart timer set by handleProcessExit fires: start().catch(...)
RestartTimer(cap) ==
  \E which \in {"handle", "leaked"} :
    /\ IF which = "handle" THEN restartTimeout = "pending" ELSE leaked > 0
    /\ LET s1 == IF which = "handle"
                 THEN [S EXCEPT !.restartTimeout = "none"]
                 ELSE [S EXCEPT !.leaked = @ - 1]
       IN /\ Spawns(s1) => Free(s1, cap) # {}
          /\ \E o \in SpawnOutcomes : Commit(start(s1, o, cap))
    /\ UNCHANGED <<cfgVars, fnVars, plain, ws, registered, limVars, now, reqVars>>

\* The 5-second timer of a stop() call (of the given kind) awaiting child c fires.
StopTimeout(c, kind, cap) ==
  /\ kind \in stopWait[c]
  /\ LET s1 == IF process # NoChild /\ process \notin killed
               THEN kill(S, process, "SIGKILL") ELSE S
     IN /\ ResumeSpawns(s1, c, {kind}) => Free(awaited(s1, c, {kind}), cap) # {}
        /\ \E o \in SpawnOutcomes : Commit(resume(s1, c, {kind}, o, cap))
        /\ registered' = removeResume(registered, {kind})
  /\ UNCHANGED <<cfgVars, fnVars, plain, ws, limVars, now, reqVars>>

\* ---- proxy callers -----------------------------------------------------------------

\* Callers issue their requests in the order of their numbers.
CanIssue(r) == rq[r].st = "idle" /\ (r > 1 => rq[r - 1].st # "idle")

\* The ids a request body may carry: callers that send the same body send
\* the same id.
IdsOf(b) == IF b = Shared THEN {CHOOSE id \in ClientIds : TRUE} ELSE Keys

\* POST /mcp/:serviceId/* of caller r, whose body is one of B, once the limiter
\* passed it on and the cache middleware has read the body: the cache lookup
\* and, on a miss, the handler up to its await of the body.
Post(r, B) ==
  /\ CanIssue(r)
  /\ \E b \in B : CommitQ(cacheMiddleware(Q, r, b, now))
  /\ UNCHANGED <<cfgVars, fnVars, plain, ws, registered, limVars, now, supVars>>

\* The POST handler after the body was read: the body is a valid request
\* with the id the client chose; sendRequest.
Dispatch(r) ==
  /\ rq[r].st = "checked"
  /\ \E id \in IdsOf(rq[r].body) :
       CommitQ(cacheSet(sendRequest(Q, r, id), r, now))
  /\ UNCHANGED <<cfgVars, fnVars, plain, ws, registered, limVars, now, supVars>>

\* The timeout of caller r's sendRequest elapses. All requests of a service
\* have the same timeout, so the timers fire in the order they were set.
Timeout(r) ==
  /\ rq[r].st = "pending"
  /\ \A r2 \in Reqs : r2 < r => rq[r2].st # "pending"
  /\ CommitQ(cacheSet(sendRequestTimeout(Q, r), r, now))
  /\ UNCHANGED <<cfgVars, fnVars, plain, ws, registered, limVars, now, supVars>>

\* The line that answers caller r's request is read at time t: handleStdout,
\* and the reply of the caller it is delivered to, if any.
childLine(q, r, line, t) ==
  LET k == q.rq[r].id
      q1 == handleStdout([q EXCEPT !.rq[r].replied = TRUE], k, parse(line))
  IN IF q.cb[k] # NoReq THEN cacheSet(q1, q.cb[k], t) ELSE q1

\* Child c writes its response to caller r's request (same id) to stdout, as
\* a line of some form; the caller it is delivered to, if any, replies. E
\* tells whether the response may carry a result (FALSE), an error (TRUE).
ChildAnswer(c, r, E) ==
  /\ child[c] = "alive"
  /\ rq[r].to = c
  /\ rq[r].id # NoId
  /\ ~rq[r].replied
  /\ \E form \in Forms, e \in E :
       LET line == [of |-> IF e THEN errorResponse(r) ELSE r, form |-> form]
       IN CommitQ(childLine(Q, r, line, now))
  /\ UNCHANGED <<cfgVars, fnVars, plain, ws, registered, limVars, now, supVars>>

\* The child answers with a result.
ChildReply(c, r) == ChildAnswer(c, r, {FALSE})

\* The 60 s interval of cache.ts fires.
SweepCache ==
  /\ sweepCache(cache, now) # cache
  /\ cache' = sweepCache(cache, now)
  /\ UNCHANGED <<cfgVars, fnVars, plain, ws, registered, limVars, now, supVars, requestCallbacks, rq, emitted>>

\* ---- the rate limiter and the clock -------------------------------------------------

\* A POST of client cl to /mcp/:serviceId/* reaches the limiter. cap bounds
\* the requests counted in one window.
RateLimited(cl, cap) ==
  /\ \/ store[clientIp(cl)] = NoEntry
     \/ store[clientIp(cl)].resetTime < now
     \/ store[clientIp(cl)].count < cap
  /\ CommitL(rateLimitMiddleware(L, cl, now))
  /\ UNCHANGED <<cfgVars, fnVars, plain, ws, registered, supVars, reqVars, now>>

\* The 60 s interval of rate-limit.ts fires.
SweepStore ==
  /\ sweepStore(store, now) # store
  /\ store' = sweepStore(store, now)
  /\ UNCHANGED <<cfgVars, fnVars, plain, ws, registered, supVars, reqVars, now, served, rl>>

\* Time passes, up to one of the instants T.
Tick(T) ==
  /\ \E t \in T : t > now /\ now' = t
  /\ UNCHANGED <<cfgVars, fnVars, plain, ws, registered, supVars, reqVars, limVars>>

\* ---- specifications -------------------------------------------------------------

\* The supervisor's lifecycle, with at most cap children at a time.
NextSup(cap) ==
  \/ Start(cap)
  \/ Stop
  \/ Restart(cap)
  \/ \E c \in Children : ChildDie(c)
  \/ \E c \in Children : ChildExit(c, cap)
  \/ \E c \in Children : ChildError(c)
  \/ HealthProbe
  \/ RestartTimer(cap)
  \/ \E c \in Children, kind \in {"stop", "restart"} : StopTimeout(c, kind, cap)

Next == NextSup(MaxChildren)

Spec == Init /\ [][Next]_vars

\* The request path with k callers, on a supervisor going through its lifecycle.
NextCalls(k) ==
  \/ NextSup(MaxChildrenReq)
  \/ \E r \in 1..k : Post(r, {r})
  \/ \E r \in Reqs : Dispatch(r)
  \/ \E r \in Reqs : Timeout(r)
  \/ \E c \in Children, r \in Reqs : ChildReply(c, r)

\* The request path is followed on a service configured for one automatic
\* restart: a crash is restarted, and a second crash ends in crashed.
InitReq == Init /\ autoRestart /\ maxRestarts = 1

NextReq == NextCalls(MaxReq)

SpecReq == InitReq /\ [][NextReq]_vars

\* The lifecycle of a supervisor configured for MaxBackoff automatic restarts.
InitBackoff ==
  /\ autoRestart = TRUE
  /\ maxRestarts = MaxBackoff
  /\ rateLimit = DefaultLimit
  /\ cacheTTL = DefaultCacheTTL
  /\ Fresh

NextBackoff == NextSup(MaxChildrenReq)

SpecBackoff == InitBackoff /\ [][NextBackoff]_vars

\* The request path with one more caller.
NextReqMore == NextCalls(MaxReq + 1)

SpecReqMore == InitReq /\ [][NextReqMore]_vars

\* The event loop runs every callback that is due: a handler whose body was
\* read goes on, and a timer that is set and not cleared fires.
SpecReqMoreFair ==
  /\ SpecReqMore
  /\ \A r \in Reqs : WF_vars(Dispatch(r)) /\ WF_vars(Timeout(r))

\* The instants at which the cache is observed: when an entry is stored at 0,
\* the instant it expires and an instant after it, at which an entry stored
\* at ttl has not expired.
CacheInstants == {0, ttl, ttl + 1}

\* The request path with the cache and the clock: every caller sends the
\* shared body or a body of its own, to a supervisor that is started and
\* restarts the child that dies.
NextCacheWith(T, E) ==
  \/ Start(MaxChildrenReq)
  \/ \E c \in Children : ChildDie(c)
  \/ \E c \in Children : ChildExit(c, MaxChildrenReq)
  \/ RestartTimer(MaxChildrenReq)
  \/ \E r \in Reqs : Post(r, {Shared, r})
  \/ \E r \in Reqs : Dispatch(r)
  \/ \E r \in Reqs : Timeout(r)
  \/ \E c \in Children, r \in Reqs : ChildAnswer(c, r, E)
  \/ SweepCache
  \/ Tick(T)

NextCacheAt(T) == NextCacheWith(T, {FALSE})

NextCache == NextCacheAt(CacheInstants)

SpecCache == InitReq /\ [][NextCache]_vars

\* The instants at which the cache of a service with a cacheTTL of its own is
\* observed: when an entry is stored, when the longest cacheTTL has elapsed,
\* when the entry expires, and after that.
TtlInstants == {0, 1000 * MaxCacheTTL, ttl, ttl + 1}

\* A service whose definition has a cacheTTL between 0 and MaxCacheTTL seconds.
InitCacheTtl ==
  /\ autoRestart = TRUE
  /\ maxRestarts = 1
  /\ rateLimit = DefaultLimit
  /\ cacheTTL \in 0..MaxCacheTTL
  /\ Fresh

NextCacheTtl == NextCacheAt(TtlInstants)

SpecCacheTtl == InitCacheTtl /\ [][NextCacheTtl]_vars

\* The cached request path with a child that answers with a result or with
\* an error.
NextCacheErr == NextCacheWith(CacheInstants, BOOLEAN)

SpecCacheErr == InitReq /\ [][NextCacheErr]_vars

\* The cached request path of a service that may be removed.
NextCacheRemove ==
  \/ NextCache
  \/ Remove

SpecCacheRemove == InitReq /\ [][NextCacheRemove]_vars

\* The lifecycle of a supervisor that may be removed.
NextRemove ==
  \/ NextSup(MaxChildren)
  \/ Remove
  \/ \E c \in Children : StopTimeout(c, "remove", MaxChildren)

SpecRemove == Init /\ [][NextRemove]_vars

\* A client connects to /mcp/ws?service=<id>.
WsConnect ==
  /\ ws.state = "none"
  /\ ws' = connection(ws)
  /\ UNCHANGED <<cfgVars, fnVars, plain, registered, limVars, now, supVars, reqVars>>

\* Caller r sends a valid request in a message of the open socket: the
\* 'message' listener up to its await of sendRequest.
WsMessage(r) ==
  /\ ws.state = "open"
  /\ CanIssue(r)
  /\ \E id \in Keys : CommitQ(sendRequest(Q, r, id))
  /\ ws' = [ws EXCEPT !.owns = @ \cup {r}]
  /\ UNCHANGED <<cfgVars, fnVars, plain, registered, limVars, now, supVars>>

\* The client's socket closes.
WsClose ==
  /\ ws.state = "open"
  /\ ws' = wsClose(ws)
  /\ UNCHANGED <<cfgVars, fnVars, plain, registered, limVars, now, supVars, reqVars>>

\* The requests of a WebSocket client of a supervisor that is started and
\* restarts the child that dies.
NextWs ==
  \/ Start(MaxChildrenReq)
  \/ \E c \in Children : ChildDie(c)
  \/ \E c \in Children : ChildExit(c, MaxChildrenReq)
  \/ RestartTimer(MaxChildrenReq)
  \/ WsConnect
  \/ \E r \in Reqs : WsMessage(r)
  \/ WsClose
  \/ \E r \in Reqs : Timeout(r)
  \/ \E c \in Children, r \in Reqs : ChildReply(c, r)

SpecWs == InitReq /\ [][NextWs]_vars

\* The stderr 'data' listener of a running child is called, while no
\* exception has ended the server.
ChildStderr ==
  /\ \E c \in Children : child[c] = "alive"
  /\ ~stderr.uncaught
  /\ stderr' = handleStderr(stderr, ws)
  /\ UNCHANGED <<cfgVars, supVars, reqVars, limVars, now, registered, ws, plain, admin,
                 envelope, routed, apiKeys, auth, boot, framer>>

\* A supervisor with a WebSocket client, whose children write to stderr.
NextStderr ==
  \/ NextWs
  \/ ChildStderr

SpecStderr == InitReq /\ [][NextStderr]_vars

\* The management routes, each request handled to its reply.
CreateService(b) ==
  /\ admin.made < MaxServices
  /\ admin' = createService(admin, b)
  /\ UNCHANGED <<cfgVars, supVars, reqVars, limVars, now, registered, ws, plain, stderr,
                 envelope, routed, apiKeys, auth, boot, framer>>

UpdateService(i, b) ==
  /\ admin' = updateService(admin, i, b)
  /\ UNCHANGED <<cfgVars, supVars, reqVars, limVars, now, registered, ws, plain, stderr,
                 envelope, routed, apiKeys, auth, boot, framer>>

DeleteService(i) ==
  /\ admin' = deleteService(admin, i)
  /\ UNCHANGED <<cfgVars, supVars, reqVars, limVars, now, registered, ws, plain, stderr,
                 envelope, routed, apiKeys, auth, boot, framer>>

StartService(i, fails) ==
  /\ admin' = startService(admin, i, fails)
  /\ UNCHANGED <<cfgVars, supVars, reqVars, limVars, now, registered, ws, plain, stderr,
                 envelope, routed, apiKeys, auth, boot, framer>>

StopService(i) ==
  /\ admin' = stopService(admin, i)
  /\ UNCHANGED <<cfgVars, supVars, reqVars, limVars, now, registered, ws, plain, stderr,
                 envelope, routed, apiKeys, auth, boot, framer>>

NextAdmin ==
  \/ \E b \in CreateBodies : CreateService(b)
  \/ \E i \in AdminIds, b \in UpdateBodies : UpdateService(i, b)
  \/ \E i \in AdminIds : DeleteService(i)
  \/ \E i \in AdminIds, fails \in BOOLEAN : StartService(i, fails)
  \/ \E i \in AdminIds : StopService(i)

SpecAdmin == InitReq /\ [][NextAdmin]_vars

\* A management request presenting the key k reaches the middleware.
Manage(k) ==
  /\ ~auth.next
  /\ auth' = authMiddleware(apiKeys, k)
  /\ UNCHANGED <<cfgVars, supVars, reqVars, limVars, now, registered, ws, plain, stderr, admin,
                 envelope,
                 routed, apiKeys, boot, framer>>

\* The handler of the request that the middleware passed on has replied.
ManageDone ==
  /\ auth.next
  /\ auth' = NoAuth
  /\ UNCHANGED <<cfgVars, supVars, reqVars, limVars, now, registered, ws, plain, stderr, admin,
                 envelope,
                 routed, apiKeys, boot, framer>>

\* The handlers of the management API run for requests the middleware
\* passed on; the children and the timers go their way.
NextAuth ==
  \/ \E k \in Presented : Manage(k)
  \/ ManageDone
  \/ auth.next /\ Start(MaxChildrenReq)
  \/ auth.next /\ Stop
  \/ auth.next /\ Restart(MaxChildrenReq)
  \/ auth.next /\ Remove
  \/ \E c \in Children : ChildDie(c)
  \/ \E c \in Children : ChildExit(c, MaxChildrenReq)
  \/ RestartTimer(MaxChildrenReq)
  \/ \E c \in Children, kind \in {"stop", "restart", "remove"} :
       StopTimeout(c, kind, MaxChildrenReq)

\* Each of the first two secrets has an active record, an inactive record or
\* none; the third has none.
InitAuth ==
  /\ autoRestart = TRUE
  /\ maxRestarts = 1
  /\ rateLimit = DefaultLimit
  /\ cacheTTL = DefaultCacheTTL
  /\ FreshService
  /\ FreshEnvelope
  /\ FreshRoute
  /\ \E a, b \in {"active", "inactive", "none"} :
       apiKeys = [h \in Hashes |-> IF h = sha256("k1") THEN a
                                   ELSE IF h = sha256("k2") THEN b ELSE "none"]
  /\ auth = NoAuth
  /\ FreshBoot
  /\ FreshFramer

SpecAuth == InitAuth /\ [][NextAuth]_vars

\* main() loads the next row of dbServices.
BootStep ==
  /\ ~boot.aborted
  /\ boot.i <= Len(boot.rows)
  /\ boot' = bootStep(boot)
  /\ UNCHANGED <<cfgVars, supVars, reqVars, limVars, now, registered, ws, plain, stderr, admin,
                 envelope,
                 routed, apiKeys, auth, framer>>

InitBoot ==
  /\ autoRestart = TRUE
  /\ maxRestarts = 0
  /\ rateLimit = DefaultLimit
  /\ cacheTTL = DefaultCacheTTL
  /\ FreshService
  /\ FreshEnvelope
  /\ FreshRoute
  /\ FreshAuth
  /\ \E n \in 0..MaxServices : \E rows \in [1..n -> Rows] :
       boot = [NoBoot EXCEPT !.rows = rows]
  /\ FreshFramer

NextBoot == BootStep

SpecBoot == InitBoot /\ [][NextBoot]_vars

\* A 'data' event of the stdout of a child that is alive, with the next n
\* bytes of its output.
Chunk(n) ==
  /\ \E c \in Children : child[c] = "alive"
  /\ n \in 1..Len(framer.rest)
  /\ LET data == SubSeq(framer.rest, 1, n)
         f1 == [framer EXCEPT !.rest = SubSeq(@, n + 1, Len(@)),
                              !.read = @ \o data]
     IN framer' = handleStdoutData(f1, data)
  /\ UNCHANGED <<cfgVars, supVars, reqVars, limVars, now, registered, ws, plain, stderr, admin,
                 envelope,
                 routed, apiKeys, auth, boot>>

\* A supervisor restarting its child once, whose children write up to
\* max bytes of the alphabet A.
InitFramer(A, max) ==
  /\ autoRestart = TRUE
  /\ maxRestarts = 1
  /\ rateLimit = DefaultLimit
  /\ cacheTTL = DefaultCacheTTL
  /\ FreshService
  /\ FreshEnvelope
  /\ FreshRoute
  /\ FreshAuth
  /\ FreshBoot
  /\ \E n \in 0..max : \E bs \in [1..n -> A] :
       framer = [NoOutput EXCEPT !.rest = bs]

NextFramer ==
  \/ Start(MaxChildrenReq)
  \/ \E c \in Children : ChildDie(c)
  \/ \E c \in Children : ChildExit(c, MaxChildrenReq)
  \/ RestartTimer(MaxChildrenReq)
  \/ \E n \in 1..MaxBytes : Chunk(n)

\* The output is ASCII text.
SpecLines == InitFramer(Ascii, MaxBytes) /\ [][NextFramer]_vars

\* The output is UTF-8 text.
SpecFramer == InitFramer(Bytes, MaxUtf) /\ [][NextFramer]_vars

\* The POST handler of a running service validates a body.
Validate ==
  /\ envelope.reply = NoReply
  /\ envelope' = [envelope EXCEPT !.reply = validate(envelope.body)]
  /\ UNCHANGED <<cfgVars, supVars, reqVars, limVars, now, registered, ws, plain, stderr, admin,
                 routed,
                 apiKeys, auth, boot, framer>>

InitEnvelope ==
  /\ autoRestart = TRUE
  /\ maxRestarts = 0
  /\ rateLimit = DefaultLimit
  /\ cacheTTL = DefaultCacheTTL
  /\ FreshService
  /\ \E b \in Bodies : envelope = [body |-> b, reply |-> NoReply]
  /\ FreshRoute
  /\ FreshAuth
  /\ FreshBoot
  /\ FreshFramer

NextEnvelope == Validate

SpecEnvelope == InitEnvelope /\ [][NextEnvelope]_vars

\* A POST with the path routed.path arrives.
Route ==
  /\ routed.to = NoService
  /\ routed' = [routed EXCEPT !.to = dispatch(routed.services, routed.path)]
  /\ UNCHANGED <<cfgVars, supVars, reqVars, limVars, now, registered, ws, plain, stderr, admin,
                 envelope,
                 apiKeys, auth, boot, framer>>

InitRoute ==
  /\ autoRestart = TRUE
  /\ maxRestarts = 0
  /\ rateLimit = DefaultLimit
  /\ cacheTTL = DefaultCacheTTL
  /\ FreshService
  /\ FreshEnvelope
  /\ \E s \in Registries, p \in Paths :
       routed = [services |-> s, path |-> p, to |-> NoService]
  /\ FreshAuth
  /\ FreshBoot
  /\ FreshFramer

NextRoute == Route

SpecRoute == InitRoute /\ [][NextRoute]_vars

\* The instants at which the limiter is observed: within a window, at the
\* instant it ends, and after it.
LimitInstants == {0, 1000, windowMs, windowMs + 1}

\* The limiter serving the clients cs, counting up to cap requests a window.
NextLimit(cs, cap) ==
  \/ \E cl \in cs : RateLimited(cl, cap)
  \/ SweepStore
  \/ Tick(LimitInstants)

\* A service whose definition has a small rateLimit, and all the clients.
InitLimit ==
  /\ autoRestart = FALSE
  /\ maxRestarts = 0
  /\ rateLimit \in 1..MaxRateLimit
  /\ cacheTTL = DefaultCacheTTL
  /\ Fresh

SpecLimit == InitLimit /\ [][NextLimit(Clients, MaxRateLimit + 1)]_vars

\* A service with the default rateLimit, and one client that goes beyond it.
InitLimitFull ==
  /\ autoRestart = FALSE
  /\ maxRestarts = 0
  /\ rateLimit = DefaultLimit
  /\ cacheTTL = DefaultCacheTTL
  /\ Fresh

Forwarded == {cl \in Clients : cl.xff # NoHeader}

SpecLimitFull ==
  InitLimitFull /\ [][NextLimit(Forwarded, DefaultLimit + MaxOver)]_vars

\* The limiter and the request side of the run without sweeps.
PL == [store |-> plain.store, served |-> plain.served, rl |-> rl]

QP == [Q EXCEPT !.cache = plain.cache]

\* The request of client cl reaches the limiter, in the run with sweeps and
\* in the run without.
RateLimitedBoth(cl, cap) ==
  /\ \/ store[clientIp(cl)] = NoEntry
     \/ store[clientIp(cl)].resetTime < now
     \/ store[clientIp(cl)].count < cap
  /\ CommitL(rateLimitMiddleware(L, cl, now))
  /\ plain' = [plain EXCEPT !.store = rateLimitMiddleware(PL, cl, now).store,
                            !.served = rateLimitMiddleware(PL, cl, now).served]
  /\ UNCHANGED <<cfgVars, fnVars, ws, registered, supVars, reqVars, now>>

\* The child answers caller r's request with a result, in the run with
\* sweeps and in the run without.
ChildReplyBoth(c, r) ==
  /\ child[c] = "alive"
  /\ rq[r].to = c
  /\ rq[r].id # NoId
  /\ ~rq[r].replied
  /\ \E form \in Forms :
       LET line == [of |-> r, form |-> form]
       IN /\ CommitQ(childLine(Q, r, line, now))
          /\ plain' = [plain EXCEPT !.cache = childLine(QP, r, line, now).cache]
  /\ UNCHANGED <<cfgVars, fnVars, ws, registered, limVars, now, supVars>>

\* The instants at which the sweeps are observed: the end of a window opened
\* at 0 and the expiry of an entry stored at 0, and the instants after them.
SweepInstants == {0, windowMs, windowMs + 1, ttl, ttl + 1}

\* A service that is not restarted, with the default limit.
InitSweep ==
  /\ autoRestart = FALSE
  /\ maxRestarts = 0
  /\ rateLimit = DefaultLimit
  /\ cacheTTL = DefaultCacheTTL
  /\ Fresh

NextSweep ==
  \/ Start(MaxChildrenReq)
  \/ \E r \in Reqs : Post(r, {Shared})
  \/ \E r \in Reqs : Dispatch(r)
  \/ \E c \in Children, r \in Reqs : ChildReplyBoth(c, r)
  \/ \E cl \in Forwarded : RateLimitedBoth(cl, DefaultLimit + MaxOver)
  \/ SweepCache
  \/ SweepStore
  \/ Tick(SweepInstants)

SpecSweep == InitSweep /\ [][NextSweep]_vars

\* ---- claims -------------------------------------------------------------------------

Alive == {c \in Children : child[c] = "alive"}

\* C1: at most one child spawned by the supervisor is alive at any time.
C1_AtMostOneAlive == Cardinality(Alive) <= 1

Pending == {r \in Reqs : rq[r].st = "pending"}

\* C2: the response delivered to a caller is the child's reply to that
\* caller's own request.
C2_OwnReply ==
  \A r \in Reqs : rq[r].out = "response" => rq[r].of = r

\* C3: no two outstanding sendRequest calls of the supervisor share a wire id.
C3_UniqueWireIds ==
  \A r1, r2 \in Pending : r1 # r2 => rq[r1].id # rq[r2].id

\* The steps that belong to an external start or restart command: the
\* command itself, and the resumption of a restart() that awaited an exit.
ExternalStart(cap) ==
  \/ Start(cap)
  \/ Restart(cap)
  \/ \E c \in Children :
       /\ "restart" \in stopWait[c]
       /\ ChildExit(c, cap) \/ StopTimeout(c, "restart", cap)

\* A child is spawned in the step.
Spawned ==
  \E c \in Children : child[c] = "none" /\ child'[c] \in {"alive", "failed"}

\* C4: a supervisor in state stopped leaves that state, or spawns a child,
\* only by an external start or restart command.
C4_StoppedUntilCommand ==
  [][(status = "stopped" /\ (status' # "stopped" \/ Spawned))
       => ExternalStart(MaxChildren)]_vars

\* The steps in which a stop() call returns: at once when it does not await,
\* else when the exit it awaits or its 5-second timer arrives.
StopReturns(cap) ==
  \/ Stop /\ ~StopAwaits(S)
  \/ \E c \in Children :
       /\ stopWait[c] = {"stop"}
       /\ ChildExit(c, cap) \/ StopTimeout(c, "stop", cap)

\* C5: when stop() returns, the status is stopped and no automatic restart
\* remains scheduled.
C5_StopReturnsStopped ==
  [][StopReturns(MaxChildren)
       => (status' = "stopped" /\ restartTimeout' = "none" /\ leaked' = 0)]_vars

\* The transport of child c is closed: stop was invoked on it, or it exited.
TransportClosed(c) == c = Lost \/ stopWait[c] # {}

\* C6: no sendRequest stays outstanding once the transport of the child it
\* was written to is closed.
C6_ClosedTransportCancels ==
  \A r \in Pending : ~TransportClosed(rq[r].to)

\* C7: every sendRequest call eventually completes, whatever the other
\* callers (their ids included) and the supervisor's lifecycle do.
C7_Completes ==
  \A r \in Reqs :
    (rq[r].st \in {"checked", "pending"}) ~> (rq[r].st = "done")

C7_Witness ==
  \E r1, r2 \in Reqs :
    /\ r1 # r2
    /\ rq[r1].id = rq[r2].id
    /\ rq[r1].out = "timeout"
    /\ rq[r2].out \in {"timeout", "response"}
    /\ restartCount > 0

\* C8: a request that timed out is answered HTTP 500 with JSON-RPC error
\* -32603, and the pending table holds no entry of it.
C8_TimeoutReply ==
  \A r \in Reqs :
    rq[r].out = "timeout" =>
      /\ PostStatus(rq[r].out) = HttpInternal
      /\ PostErrorCode(rq[r].out) = InternalError
      /\ \A k \in Keys : requestCallbacks[k] # r

C8_Witness ==
  \E r \in Reqs : rq[r].out = "timeout" /\ rq[r].id # NoId

\* C9: a child message whose id matches no outstanding request is not
\* delivered to the notification subscribers.
C9_OrphansDropped ==
  \A m \in emitted : m \notin Reqs

\* C10: with autoRestart, restartCount never exceeds maxRestarts.
C10_RestartCountCapped ==
  autoRestart => restartCount <= maxRestarts

C10_Witness ==
  /\ autoRestart
  /\ maxRestarts > 0
  /\ restartCount = maxRestarts
  /\ status = "crashed"

\* The automatic restarts are used up, or switched off.
AtCap == ~autoRestart \/ restartCount >= maxRestarts

\* C11: a supervisor that is crashed with its restarts used up (or switched
\* off) stays crashed, and spawns nothing, until an external command.
C11_CrashedStays ==
  [][(status = "crashed" /\ AtCap /\ (status' # "crashed" \/ Spawned))
       => (ExternalStart(MaxChildren) \/ Stop)]_vars

\* C13: an external start or restart command resets the restart counter to 0.
C13_StartResets ==
  [][ExternalStart(MaxChildren) => restartCount' = 0]_vars

\* C15: when the 5-second wait of a stop() call elapses and the child it
\* awaits has not exited, the child has been sent SIGKILL when stop() returns.
C15_KillAfterWait ==
  [][\A c \in Children :
       (StopTimeout(c, "stop", MaxChildren) /\ child[c] = "alive")
         => c \in sigkilled']_vars

\* The supervisor waits for the restart timer after an exit it handled, and
\* no stop() is in progress.
Recovering == status = "restarting" /\ \A c \in Children : stopWait[c] = {}

\* The steps that call start() or stop(): the external commands and the
\* restart timer.
Commanded(cap) == Start(cap) \/ Stop \/ Restart(cap) \/ RestartTimer(cap)

\* C12: after the exit of a running supervisor's child was handled (crashed,
\* restarting), the next status change is the restart (starting, running):
\* until start() or stop() is called, the status and the counter stay.
C12_RestartOrder ==
  [][(Recovering /\ ~Commanded(MaxChildren))
       => (status' = "restarting" /\ restartCount' = restartCount)]_vars

\* C14: every restart timer is set with the delay min(1000 ms * 2^n, 30000 ms),
\* n being the restart counter at that moment; the delays of successive
\* timers never decrease and never exceed 30 seconds.
C14_Backoff ==
  [][restartCount' # restartCount
       => /\ delay' = Min(BaseDelay * 2^restartCount', MaxDelay)
          /\ delay' >= delay
          /\ delay' <= MaxDelay]_vars

C14_Witness ==
  /\ restartCount = MaxBackoff
  /\ BaseDelay * 2^restartCount > MaxDelay
  /\ delay = MaxDelay
  /\ restartTimeout = "pending"

\* The window of the client's key is open: a request now is counted in it.
InWindow(cl) ==
  /\ store[clientIp(cl)] # NoEntry
  /\ store[clientIp(cl)].resetTime >= now

\* C16: with rateLimit = L in the service definition, the first L requests
\* of a client in a window are passed on and the next one is answered 429
\* with X-RateLimit-Remaining 0.
C16_ServiceLimit ==
  [][\A cl \in Clients :
       (RateLimited(cl, MaxRateLimit + 1) /\ InWindow(cl))
         => IF served[cl] < rateLimit
            THEN rl'.status = 0
            ELSE rl'.status = HttpTooMany /\ rl'.remaining = 0]_vars

\* C17: a request of one client leaves the counter of every other client as
\* it is, a client being told by its forwarded-for header, else by its
\* real-ip header, else by the remote address of its connection.
C17_Independent ==
  [][LET Identity(cl) == IF cl.xff # NoHeader THEN cl.xff
                         ELSE IF cl.xri # NoHeader THEN cl.xri
                         ELSE cl.addr
     IN \A c1, c2 \in Clients :
          (RateLimited(c1, MaxRateLimit + 1) /\ Identity(c1) # Identity(c2))
            => store'[clientIp(c2)] = store[clientIp(c2)]]_vars

\* C18: the headers of the limiter's latest verdict satisfy
\* remaining + served_in_window = limit for the client it was given to, and
\* remaining is never negative.
C18_Headers ==
  rl # NoVerdict =>
    /\ rl.remaining + served[rl.client] = rl.limit
    /\ rl.remaining >= 0

\* C19: every 429 carries a Retry-After between 1 and windowMs / 1000.
C19_RetryAfter ==
  rl.status = HttpTooMany =>
    /\ rl.retryAfter >= 1
    /\ rl.retryAfter <= windowMs \div 1000

C21_TtlOfService ==
  [][\A r \in Reqs, b \in Texts :
       (Post(r, {b}) /\ rq'[r].out = "hit")
         => /\ cacheTTL > 0
            /\ now < (cache[b].expiry - ttl) + 1000 * cacheTTL]_vars

\* C22: a response of the child that carries a JSON-RPC error field is never
\* stored in the cache.
C22_NoErrorCached ==
  \A b \in Texts : cache[b] # NoCached => ~hasError(cache[b].data)

\* C25: a POST that misses the cache and cannot be dispatched because the
\* supervisor is not running, at the status check or when sendRequest is
\* reached after it, is answered 503.
C25_NotRunning503 ==
  \A r \in Reqs :
    rq[r].out \in {"unavailable", "illegalState"}
      => PostStatus(rq[r].out) = HttpUnavailable

\* C24: a POST whose body violates the JSON-RPC envelope (jsonrpc not the
\* string "2.0"; method absent, not a string or empty; id neither string nor
\* number nor absent) is answered 400 with code -32600, and is not sent to
\* the child.
C24_InvalidRequest ==
  LET b == envelope.body
      violates ==
        \/ b.jsonrpc # [t |-> "string", v |-> "2.0"]
        \/ b.method.t # "string" \/ b.method.v = ""
        \/ b.id.t \notin {"string", "number", "undefined"}
  IN (envelope.reply # NoReply /\ violates)
       => /\ envelope.reply.status = HttpBadRequest
          /\ envelope.reply.code = InvalidRequest
          /\ ~envelope.reply.sent

\* C26: a POST is dispatched to the registered service whose proxyPath is the
\* longest proxyPath that is a prefix of the request path.
C26_LongestPrefix ==
  LET s == routed.services
      p == routed.path
      IsPrefix(x) == Len(x) <= Len(p) /\ \A n \in 1..Len(x) : x[n] = p[n]
      matching == {i \in ServiceIds : s[i] # NoPath /\ IsPrefix(s[i])}
  IN routed.to # NoService
       => \A i \in matching :
            (\A j \in matching : Len(s[j]) <= Len(s[i])) => routed.to = i

\* C23: a POST for an id that names no registered service is answered 404,
\* whatever requests preceded it and whatever the cache holds.
C23_Unregistered404 ==
  [][\A r \in Reqs, b \in Texts :
       (~registered /\ Post(r, {b})) => PostStatus(rq'[r].out) = HttpNotFound]_vars

\* C29: once removeProcess(id) has completed, no child of the removed
\* supervisor is alive, and none is spawned.
C29_RemovedIsGone ==
  ~registered => \A c \in Children : child[c] # "alive"

\* C30: once the WebSocket has closed, its listeners are off the supervisor
\* and no request that came through it is in the pending table.
C30_ClosedSocket ==
  ws.state = "closed"
    => /\ ~ws.subscribed
       /\ \A k \in Keys : requestCallbacks[k] \notin ws.owns

\* C27: a management request that does not carry the secret of an active API
\* key is answered 401 and changes neither the registry nor the supervisor;
\* the supervisor is only stopped for a request the middleware passed on.
C27_Unauthorized ==
  [][\A k \in Presented :
       (Manage(k) /\ ~(k \in Secrets /\ apiKeys[sha256(k)] = "active"))
         => /\ auth'.status = HttpUnauthorized
            /\ ~auth'.next
            /\ UNCHANGED <<registered, supVars>>]_vars
    /\ [][(status # "stopped" /\ status' = "stopped") => auth.next]_vars

C27_Witness ==
  /\ auth.status = HttpUnauthorized
  /\ auth.key = "k2"
  /\ apiKeys[sha256("k2")] = "inactive"
  /\ status = "running"

\* C28: at boot a supervisor is constructed for every persisted service,
\* start() is invoked exactly for those whose persisted status is running,
\* and a start() that fails is logged and the loading goes on.
C28_BootLoads ==
  LET n == Len(boot.rows)
      done == 1..(boot.i - 1)
  IN /\ ~boot.aborted
     /\ boot.constructed = done
     /\ boot.started = {i \in done : boot.rows[i].status = "running"}
     /\ boot.logged = {i \in boot.started : boot.rows[i].fails}
     /\ boot.i <= n => ENABLED BootStep

C28_Witness ==
  /\ Len(boot.rows) = MaxServices
  /\ boot.i = MaxServices + 1
  /\ boot.rows[1].status = "running" /\ boot.rows[1].fails
  /\ boot.rows[2].status = "stopped"
  /\ boot.rows[3].status = "running"
  /\ boot.started = {1, 3}

\* C34: a death that was reported by the child's error event is not handled
\* again when its exit event follows: the restart counter is not incremented
\* a second time and no second restart timer is set.
C34_HandledOnce ==
  [][\A c \in Children :
       (child[c] = "errored" /\ ChildExit(c, MaxChildren))
         => /\ restartCount' = restartCount
            /\ leaked' = leaked]_vars

\* C35: the exit event of a child that is not the supervisor's current child
\* leaves status, current child, health probe and restart counter unchanged.
C35_StaleExit ==
  [][\A c \in Children :
       (process # NoChild /\ process # c /\ ChildExit(c, MaxChildren))
         => UNCHANGED <<status, process, hcHandle, restartCount>>]_vars

\* C31 as stated: every complete line that is not a JSON-RPC message is
\* emitted as a log event.
C31_EveryLineLogged ==
  LET parts == split(toString(framer.read))
      complete == SubSeq(parts, 1, Len(parts) - 1)
      failing == SelectSeq(complete, LAMBDA l : parseJSONRPCMessage(l) # "message")
      logged == SelectSeq(framer.events, LAMBDA e : e.event = "log")
  IN /\ Len(logged) = Len(failing)
     /\ \A i \in 1..Len(failing) : logged[i].line = failing[i]

\* C31: every complete line that is not blank and is not a JSON-RPC message is
\* emitted as a log event, the lines around it are processed in order, and a
\* chunk of output changes neither the lifecycle state nor the pending table.
C31_GarbageLogged ==
  /\ [](LET parts == split(toString(framer.read))
            complete == SubSeq(parts, 1, Len(parts) - 1)
            nonblank == SelectSeq(complete, LAMBDA l : ~blank(l))
        IN /\ Len(framer.events) = Len(nonblank)
           /\ \A i \in 1..Len(nonblank) :
                /\ framer.events[i].line = nonblank[i]
                /\ framer.events[i].event = "log"
                     <=> parseJSONRPCMessage(nonblank[i]) # "message")
  /\ [][\A n \in 1..MaxBytes :
          Chunk(n) => UNCHANGED <<supVars, requestCallbacks>>]_vars

C31_Witness ==
  /\ framer.rest = <<>>
  /\ Len(framer.events) = 2
  /\ framer.events[1].event = "log"
  /\ framer.events[2].event = "notification"
  /\ restartCount > 0

\* C33: the lines processed depend only on the bytes read, not on the chunks
\* they came in: the events are those of the complete lines of the text the
\* bytes read encode, in order, and the buffer holds the unterminated tail.
C33_ChunkingInvisible ==
  LET parts == split(toString(framer.read))
  IN /\ framer.events = emits(SubSeq(parts, 1, Len(parts) - 1))
     /\ framer.buffer = parts[Len(parts)]

\* C36: when a child is spawned, the read buffer is empty.
C36_BufferEmptyAtStart ==
  [][\A c \in Children :
       (child[c] # "alive" /\ child'[c] = "alive") => framer'.buffer = <<>>]_vars

\* C37: with sweeps placed anywhere, each request gets the outcome it gets
\* in the run without sweeps: the limiter's verdict and headers, and the
\* cache's HIT or MISS with the body served.
C37_SweepsUnobservable ==
  [][/\ \A cl \in Forwarded :
          RateLimitedBoth(cl, DefaultLimit + MaxOver)
            => rl' = rateLimitMiddleware(PL, cl, now).rl
     /\ \A r \in Reqs, b \in Texts :
          Post(r, {b}) => rq'[r] = cacheMiddleware(QP, r, b, now).rq[r]]_vars

C37_Witness ==
  /\ plain.store # store
  /\ plain.cache # cache
  /\ rl.status = HttpTooMany
  /\ \E r \in Reqs : rq[r].out = "hit"

\* C32: bytes on stderr only reach the log: they change neither the
\* lifecycle state nor the pending table, no client is sent them, and no
\* exception leaves the listener, with a subscriber or without.
C32_StderrOnlyLogged ==
  [][ChildStderr =>
       /\ stderr'.logged
       /\ status' = status
       /\ requestCallbacks' = requestCallbacks
       /\ stderr'.frame = stderr.frame
       /\ ~stderr'.uncaught]_vars

\* C38: a create request answered with an error leaves the services table
\* and the process manager as they were, and after every management
\* operation the process manager holds exactly the persisted ids.
C38_FailedCreateChangesNothing ==
  /\ [][\A b \in CreateBodies :
          (CreateService(b) /\ admin'.reply >= HttpBadRequest)
            => /\ admin'.rows = admin.rows
               /\ admin'.processes = admin.processes]_vars
  /\ [](\A i \in AdminIds :
          (admin.processes[i] # NoProc) <=> (admin.rows[i] # NoRow))

\* C39: after a PUT answered with success the supervisor holds the
\* definition that was persisted, and a service that was stopped is
\* stopped, one that was running is running.
C39_UpdateTakesEffect ==
  [][\A i \in AdminIds, b \in UpdateBodies :
       (UpdateService(i, b) /\ admin'.reply = HttpOk)
         => /\ admin'.processes[i].config = admin'.rows[i].def
            /\ (admin.processes[i].status = "stopped")
                 <=> (admin'.processes[i].status = "stopped")]_vars

====
